---- MODULE Spec2Model ----
(***************************************************************************)
(* Verboten / "Proscribed Words": the live game handler                    *)
(* VerbotenGameServer.liveGame and the goroutines it starts.               *)
(*                                                                         *)
(* One HTTP request to /live/{lang} runs liveGame in its own goroutine     *)
(* (net/http).  The handler upgrades the connection, opens the guesser and *)
(* the judge Live sessions, starts the guesser relay goroutine, runs the   *)
(* client fan-out loop inline, and after that loop breaks starts the judge *)
(* goroutine and returns, which runs the deferred Close calls.             *)
(* log.Fatal ends the whole process (os.Exit), deferred calls do not run.  *)
(*                                                                         *)
(* The turn-based command line game (cmd/cli): main's guessing loop, the   *)
(* judge pipeline saidForbidden with its two confirmation checks, and the  *)
(* win test isWinning with normalize.  It is a separate program: its       *)
(* specifications SpecCLI and SpecWin leave the live game's state alone.   *)
(***************************************************************************)
EXTENDS Naturals, Sequences, FiniteSets

\* ---------------------------------------------------------------- bounds
\* frames read from all client connections together
MaxFrames == 2
\* events received from all AI sessions together
MaxEvents == 2

\* the client connections (one liveGame call each) one server process may get
Games == {"g1", "g2"}

\* ------------------------------------------------------------ data values
\* languages a request may name; "xx" stands for any unsupported one
Langs == {"en", "fr", "ar"}
RequestLangs == {"en", "xx"}

\* a message read from the websocket: bytes that are JSON of a
\* genai.LiveRealtimeInput (possibly with a key the struct does not know),
\* or bytes that do not deserialize
RawMessages ==
    { [json |-> TRUE,  audio |-> "a1", text |-> "",   unknown |-> TRUE ],
      [json |-> TRUE,  audio |-> "",   text |-> "t1", unknown |-> FALSE],
      [json |-> FALSE, audio |-> "",   text |-> "",   unknown |-> FALSE] }

\* json.Unmarshal(message, &realtimeInput): an error, or the struct with
\* the known fields (unknown keys are ignored)
Unmarshal(m) ==
    [err |-> ~m.json, val |-> [audio |-> m.audio, text |-> m.text]]

\* genai.LiveServerMessage values the guesser session produces
GuesserEvents ==
    { [sc |-> TRUE, audio |-> "guess-audio", ot |-> ""],
      [sc |-> TRUE, audio |-> "",            ot |-> "guess-text"] }

\* genai.LiveServerMessage values the judge session produces; the last one
\* has no ServerContent
JudgeEvents ==
    { [sc |-> TRUE,  audio |-> "judge-audio", ot |-> ""],
      [sc |-> TRUE,  audio |-> "",            ot |-> "judge-text"],
      [sc |-> FALSE, audio |-> "",            ot |-> ""] }

\* json.Marshal(message): the JSON object as its set of key/value pairs,
\* fields tagged omitempty left out when empty
Marshal(e) ==
    (IF e.sc /\ e.audio # "" THEN {<<"serverContent.modelTurn", e.audio>>} ELSE {})
    \cup
    (IF e.sc /\ e.ot # "" THEN {<<"serverContent.outputTranscription", e.ot>>} ELSE {})
    \cup
    (IF ~e.sc THEN {<<"setupComplete", "{}">>} ELSE {})

\* what the judge loop logs for a message: the output transcription text
\* when ServerContent and OutputTranscription are both present
JudgeSays(e) == IF e.sc /\ e.ot # "" THEN <<e.ot>> ELSE <<>>

\* ------------------------------------------- command line game: strings
\* longest guess and secret word isWinning is applied to
MaxStrLen == 2

\* The runes of the strings: "e+" is the precomposed e with acute accent
\* (U+00E9), "E+" its capital (U+00C9), "+" the combining acute accent
\* (U+0301, category Mn).
Chars == {"a", "e", "E", "e+", "E+", "+"}

Strings == UNION {[1..k -> Chars] : k \in 0..MaxStrLen}

\* unicode.ToLower of one rune
LowerRune(c) == CASE c = "E" -> "e" [] c = "E+" -> "e+" [] OTHER -> c

\* strings.ToLower
ToLower(s) == [i \in 1..Len(s) |-> LowerRune(s[i])]

\* norm.NFD: canonical decomposition
RECURSIVE NFD(_)
NFD(s) ==
    IF s = <<>> THEN <<>>
    ELSE (CASE Head(s) = "e+" -> <<"e", "+">>
            [] Head(s) = "E+" -> <<"E", "+">>
            [] OTHER -> <<Head(s)>>) \o NFD(Tail(s))

\* runes.Remove(runes.In(unicode.Mn))
RemoveMn(s) == SelectSeq(s, LAMBDA c : c # "+")

\* canonical composition of a decomposed string
RECURSIVE Compose(_)
Compose(s) ==
    IF Len(s) < 2 THEN s
    ELSE IF Head(s) = "e" /\ s[2] = "+" THEN <<"e+">> \o Compose(Tail(Tail(s)))
    ELSE IF Head(s) = "E" /\ s[2] = "+" THEN <<"E+">> \o Compose(Tail(Tail(s)))
    ELSE <<Head(s)>> \o Compose(Tail(s))

\* norm.NFC
NFC(s) == Compose(NFD(s))

\* normalize, but the marks are kept
normalize_KeepMarks(s) == NFC(NFD(ToLower(s)))

\* normalize (lines 274-283): lowercase, then the chain NFD, Remove(Mn), NFC
normalize(s) == NFC(RemoveMn(NFD(ToLower(s))))

\* strings.Contains
Contains(s, sub) ==
    /\ Len(sub) <= Len(s)
    /\ \E i \in 0..(Len(s) - Len(sub)) : SubSeq(s, i + 1, i + Len(sub)) = sub

\* isWinning (lines 267-271)
isWinning(guess, word) ==
    LET lowGuess == normalize(guess)
        lowGoal == normalize(word)
    IN Contains(lowGuess, lowGoal)

\* --------------------------------------- command line game: the AI backend
\* guesses counter at the start of a game (line 209)
InitialGuesses == 3

\* gameWord.Word, the secret word
Word == <<"E+">>

\* What the structured-output request of saidForbidden (line 354) can come
\* to: an error, a response without candidates, a text that is not JSON of
\* the result struct, or JSON of it.
JudgeOutcomes ==
    { [kind |-> "err",        lost |-> FALSE, forbiddenWord |-> <<>>,    fragment |-> <<>>],
      [kind |-> "empty",      lost |-> FALSE, forbiddenWord |-> <<>>,    fragment |-> <<>>],
      [kind |-> "unparsable", lost |-> FALSE, forbiddenWord |-> <<>>,    fragment |-> <<>>],
      [kind |-> "json",       lost |-> FALSE, forbiddenWord |-> <<>>,    fragment |-> <<>>],
      [kind |-> "json",       lost |-> FALSE, forbiddenWord |-> <<"E">>, fragment |-> <<"a">>],
      [kind |-> "json",       lost |-> TRUE,  forbiddenWord |-> <<"E">>, fragment |-> <<"e+">>],
      [kind |-> "json",       lost |-> TRUE,  forbiddenWord |-> <<"E">>, fragment |-> <<"a">>] }

\* What a yes/no request (lines 425, 445) can come to: an error, a response
\* without candidates, or an answer text.
AnswerTexts == {"Yes", "No", "Yes."}
CheckOutcomes == {"err", "empty"} \cup AnswerTexts

\* strings.ToLower of an answer text
LowerAnswer(a) == CASE a = "Yes" -> "yes" [] a = "No" -> "no" [] OTHER -> a

\* the boolean haveSameRoot and isTranslation return for an answer text
\* (lines 431-433, 451-453)
SaysYes(a) == LowerAnswer(a) = "yes"

\* What chat.SendMessage (line 228) can come to: an error (the response is
\* nil), a response without candidates, or a guess.
NilResponse == [kind |-> "nil", text |-> <<>>]
GuessOutcomes ==
    { [kind |-> "err",   text |-> <<>>],
      [kind |-> "empty", text |-> <<>>],
      [kind |-> "text",  text |-> <<"a", "e">>],
      [kind |-> "text",  text |-> <<"a">>] }

\* ------------------------------------------------------------------ state
VARIABLES
    fatal,      \* "none", or the log.Fatal call that ended the process
    hpc,        \* per game: position of the liveGame handler ("absent":
                \* this client never connects; "idle": request not yet made)
    gpc,        \* per game: position of the guesser relay goroutine
    jpc,        \* per game: position of the judge goroutine
    conn,       \* per game: websocket c: "none", "open", "closed"
    session,    \* per game: guesser session handle: "none", "open", "closed"
    sessionJudge, \* per game: judge session handle
    recvd,      \* per game: messages c.ReadMessage returned, in order
    sentG,      \* per game: inputs passed to session.SendRealtimeInput
    sentJ,      \* per game: inputs passed to sessionJudge.SendRealtimeInput
    inflight,   \* per game: SendRealtimeInput calls not yet returned, per session
    gRecv,      \* per game: messages session.Receive returned, in order
    jRecv,      \* per game: messages sessionJudge.Receive returned, in order
    clientOut,  \* per game: messages written with c.WriteMessage, in order
    judgeLog,   \* per game: "Judge says" log lines
    sendFailed, \* per game: the sessions on which SendRealtimeInput of the
                \* frame last read returned an error (the code discards it)
    budget      \* how many frames the clients send and how many events the
                \* backend sends in this run, all games together

liveVars == <<fatal, hpc, gpc, jpc, conn, session, sessionJudge, recvd, sentG,
              sentJ, inflight, gRecv, jRecv, clientOut, judgeLog, sendFailed,
              budget>>

\* the command line game: main (lines 209-264) and saidForbidden (285-413)
VARIABLES
    cpc,        \* position of main: "describe", "wait", or how it ended
    guesses,    \* main's guesses counter
    history,    \* what each turn so far came to, in order
    lost,       \* main's lost (line 218)
    forbiddenSaid,    \* main's forbiddenSaid (line 219)
    forbiddenMatched, \* main's forbiddenMatched (line 219)
    mainErr,    \* main's err of line 91, which both closures of a turn assign
    result,     \* main's result (line 226): "nil" or the guesser's response
    mainGroupErr, \* the first non-nil error a task of main's errgroup returned
    jt,         \* position of the judge task (lines 220-223)
    gt,         \* position of the guesser task (lines 227-230)
    sfResult,   \* saidForbidden's parsed result (lines 363-370)
    isSameRoot, \* saidForbidden's isSameRoot (line 382)
    isTranslated, \* saidForbidden's isTranslated (line 382)
    sfErr,      \* saidForbidden's named result err, which both checks assign
    sfGroupErr, \* the first non-nil error a task of saidForbidden's errgroup returned
    sr,         \* position of the same-root task (lines 385-388)
    tr,         \* position of the translation task (lines 389-392)
    srAnswer,   \* what the same-root request came to: "none" before it returns
    trAnswer,   \* what the translation request came to
    sfRet,      \* what saidForbidden returned this turn
    sfAnswer    \* what the structured-output request came to: "none" before
                \* it returns, then the kind of the outcome

cliVars == <<cpc, guesses, history, lost, forbiddenSaid, forbiddenMatched,
             mainErr, result, mainGroupErr, jt, gt, sfResult, isSameRoot,
             isTranslated, sfErr, sfGroupErr, sr, tr, srAnswer, trAnswer, sfRet,
             sfAnswer>>

\* one application of isWinning (lines 267-271)
VARIABLES
    wGuess,     \* the guess
    wWord,      \* fw.Word
    wResult     \* "none", or the boolean isWinning returned

winVars == <<wGuess, wWord, wResult>>

vars == <<liveVars, cliVars, winVars>>

procAlive == fatal = "none"

RECURSIVE SumLen(_, _)
SumLen(f, S) ==
    IF S = {} THEN 0
    ELSE LET g == CHOOSE x \in S : TRUE IN Len(f[g]) + SumLen(f, S \ {g})

FramesRead == SumLen(recvd, Games)
EventsReceived == SumLen(gRecv, Games) + SumLen(jRecv, Games)

\* no result of saidForbidden yet
NoReturn == [returned |-> FALSE, lost |-> FALSE, said |-> <<>>, matched |-> <<>>,
             err |-> "nil", afterChecks |-> FALSE]

\* what a turn of main starts from: the variables declared in the loop body
\* and in saidForbidden have their zero values, no task runs
FreshTurn ==
    /\ lost = FALSE
    /\ forbiddenSaid = <<>>
    /\ forbiddenMatched = <<>>
    /\ result = NilResponse
    /\ mainGroupErr = "nil"
    /\ jt = "idle"
    /\ gt = "idle"
    /\ sfResult = [lost |-> FALSE, forbiddenWord |-> <<>>, fragment |-> <<>>]
    /\ isSameRoot = FALSE
    /\ isTranslated = FALSE
    /\ sfErr = "nil"
    /\ sfGroupErr = "nil"
    /\ sr = "idle"
    /\ tr = "idle"
    /\ srAnswer = "none"
    /\ trAnswer = "none"
    /\ sfRet = NoReturn
    /\ sfAnswer = "none"

\* main at line 209: the chat is created, no turn played yet
CliInit ==
    /\ cpc = "describe"
    /\ guesses = InitialGuesses
    /\ history = <<>>
    /\ mainErr = "nil"
    /\ FreshTurn

\* isWinning not applied, on empty strings
WinIdle ==
    /\ wGuess = <<>>
    /\ wWord = <<>>
    /\ wResult = <<>>

\* the server after Start, before any request; C are the clients that will
\* connect
LiveInit(C, b) ==
    /\ budget = b
    /\ fatal = "none"
    /\ hpc = [g \in Games |-> IF g \in C THEN "idle" ELSE "absent"]
    /\ gpc = [g \in Games |-> "none"]
    /\ jpc = [g \in Games |-> "none"]
    /\ conn = [g \in Games |-> "none"]
    /\ session = [g \in Games |-> "none"]
    /\ sessionJudge = [g \in Games |-> "none"]
    /\ recvd = [g \in Games |-> <<>>]
    /\ sentG = [g \in Games |-> <<>>]
    /\ sentJ = [g \in Games |-> <<>>]
    /\ inflight = [g \in Games |-> [guesser |-> 0, judge |-> 0]]
    /\ gRecv = [g \in Games |-> <<>>]
    /\ jRecv = [g \in Games |-> <<>>]
    /\ clientOut = [g \in Games |-> <<>>]
    /\ judgeLog = [g \in Games |-> <<>>]
    /\ sendFailed = [g \in Games |-> {}]

InitFor(C) ==
    LiveInit(C, [frames |-> MaxFrames, events |-> MaxEvents]) /\ CliInit /\ WinIdle

\* one client connects
Init == InitFor({"g1"})

\* two clients connect to the same process; they send one frame less and
\* the backend one event less
InitTwo ==
    /\ LiveInit(Games, [frames |-> MaxFrames - 1, events |-> MaxEvents - 1])
    /\ CliInit
    /\ WinIdle

\* ------------------------------------------------------- liveGame handler
\* Request, but the connection is upgraded before the language is looked at
Request_UpgradeFirst(g, lang) ==
    /\ procAlive
    /\ UNCHANGED <<sendFailed, budget, cliVars, winVars>>
    /\ hpc[g] = "idle"
    /\ hpc' = [hpc EXCEPT ![g] = IF lang \in Langs THEN "upgrade" ELSE "notfound"]
    /\ conn' = [conn EXCEPT ![g] = IF lang \in Langs THEN @ ELSE "open"]
    /\ UNCHANGED <<fatal, gpc, jpc, session, sessionJudge, recvd, sentG,
                   sentJ, inflight, gRecv, jRecv, clientOut, judgeLog>>

\* lines 93-107: the language switch; an unsupported language is answered
\* with http.NotFound and the handler returns
Request(g, lang) ==
    /\ procAlive
    /\ UNCHANGED <<sendFailed, budget, cliVars, winVars>>
    /\ hpc[g] = "idle"
    /\ hpc' = [hpc EXCEPT ![g] = IF lang \in Langs THEN "upgrade" ELSE "notfound"]
    /\ UNCHANGED <<fatal, gpc, jpc, conn, session, sessionJudge, recvd, sentG,
                   sentJ, inflight, gRecv, jRecv, clientOut, judgeLog>>

\* lines 109-114: upgrader.Upgrade; on error log.Fatal
Upgrade(g, ok) ==
    /\ procAlive
    /\ UNCHANGED <<sendFailed, budget, cliVars, winVars>>
    /\ hpc[g] = "upgrade"
    /\ IF ok
       THEN /\ conn' = [conn EXCEPT ![g] = "open"]
            /\ hpc' = [hpc EXCEPT ![g] = "connect"]
            /\ UNCHANGED fatal
       ELSE /\ fatal' = "upgrade"
            /\ hpc' = [hpc EXCEPT ![g] = "fatal"]
            /\ UNCHANGED conn
    /\ UNCHANGED <<gpc, jpc, session, sessionJudge, recvd, sentG, sentJ,
                   inflight, gRecv, jRecv, clientOut, judgeLog>>

\* lines 157-161: Live.Connect for the guesser; on error log.Fatal
ConnectGuesser(g, ok) ==
    /\ procAlive
    /\ UNCHANGED <<sendFailed, budget, cliVars, winVars>>
    /\ hpc[g] = "connect"
    /\ IF ok
       THEN /\ session' = [session EXCEPT ![g] = "open"]
            /\ hpc' = [hpc EXCEPT ![g] = "connectJudge"]
            /\ UNCHANGED fatal
       ELSE /\ fatal' = "connect"
            /\ hpc' = [hpc EXCEPT ![g] = "fatal"]
            /\ UNCHANGED session
    /\ UNCHANGED <<gpc, jpc, conn, sessionJudge, recvd, sentG, sentJ,
                   inflight, gRecv, jRecv, clientOut, judgeLog>>

\* lines 178-182: Live.Connect for the judge; on error log.Fatal
ConnectJudge(g, ok) ==
    /\ procAlive
    /\ UNCHANGED <<sendFailed, budget, cliVars, winVars>>
    /\ hpc[g] = "connectJudge"
    /\ IF ok
       THEN /\ sessionJudge' = [sessionJudge EXCEPT ![g] = "open"]
            /\ hpc' = [hpc EXCEPT ![g] = "spawnGuesser"]
            /\ UNCHANGED fatal
       ELSE /\ fatal' = "connectJudge"
            /\ hpc' = [hpc EXCEPT ![g] = "fatal"]
            /\ UNCHANGED sessionJudge
    /\ UNCHANGED <<gpc, jpc, conn, session, recvd, sentG, sentJ,
                   inflight, gRecv, jRecv, clientOut, judgeLog>>

\* line 184: go func() { guessing loop }
SpawnGuesser(g) ==
    /\ procAlive
    /\ UNCHANGED <<sendFailed, budget, cliVars, winVars>>
    /\ hpc[g] = "spawnGuesser"
    /\ gpc' = [gpc EXCEPT ![g] = "recv"]
    /\ hpc' = [hpc EXCEPT ![g] = "read"]
    /\ UNCHANGED <<fatal, jpc, conn, session, sessionJudge, recvd, sentG, sentJ,
                   inflight, gRecv, jRecv, clientOut, judgeLog>>

\* lines 211-215: c.ReadMessage returns a message
ReadMessageOk(g, m) ==
    /\ procAlive
    /\ sendFailed' = [sendFailed EXCEPT ![g] = {}]
    /\ UNCHANGED <<budget, cliVars, winVars>>
    /\ hpc[g] = "read"
    /\ FramesRead < budget.frames
    /\ recvd' = [recvd EXCEPT ![g] = Append(@, m)]
    /\ hpc' = [hpc EXCEPT ![g] = "unmarshal"]
    /\ UNCHANGED <<fatal, gpc, jpc, conn, session, sessionJudge, sentG, sentJ,
                   inflight, gRecv, jRecv, clientOut, judgeLog>>

\* lines 211-215: c.ReadMessage returns an error: break
ReadMessageErr(g) ==
    /\ procAlive
    /\ sendFailed' = [sendFailed EXCEPT ![g] = {}]
    /\ UNCHANGED <<budget, cliVars, winVars>>
    /\ hpc[g] = "read"
    /\ hpc' = [hpc EXCEPT ![g] = "spawnJudge"]
    /\ UNCHANGED <<fatal, gpc, jpc, conn, session, sessionJudge, recvd, sentG,
                   sentJ, inflight, gRecv, jRecv, clientOut, judgeLog>>

\* lines 217-220: json.Unmarshal; on error log.Fatal
UnmarshalInput(g) ==
    /\ procAlive
    /\ UNCHANGED <<sendFailed, budget, cliVars, winVars>>
    /\ hpc[g] = "unmarshal"
    /\ LET r == Unmarshal(recvd[g][Len(recvd[g])]) IN
       IF r.err
       THEN /\ fatal' = "unmarshal"
            /\ hpc' = [hpc EXCEPT ![g] = "fatal"]
       ELSE /\ hpc' = [hpc EXCEPT ![g] = "sendGuesser"]
            /\ UNCHANGED fatal
    /\ UNCHANGED <<gpc, jpc, conn, session, sessionJudge, recvd, sentG, sentJ,
                   inflight, gRecv, jRecv, clientOut, judgeLog>>

\* the input the current iteration deserialized
realtimeInput(g) == Unmarshal(recvd[g][Len(recvd[g])]).val

\* mutant of SendGuesserCall: the send is started and not waited for
SendGuesserCall_Async(g) ==
    /\ procAlive
    /\ UNCHANGED <<sendFailed, budget, cliVars, winVars>>
    /\ hpc[g] = "sendGuesser"
    /\ sentG' = [sentG EXCEPT ![g] = Append(@, realtimeInput(g))]
    /\ inflight' = [inflight EXCEPT ![g].guesser = @ + 1]
    /\ hpc' = [hpc EXCEPT ![g] = "sendJudge"]
    /\ UNCHANGED <<fatal, gpc, jpc, conn, session, sessionJudge, recvd, sentJ,
                   gRecv, jRecv, clientOut, judgeLog>>

\* line 221: session.SendRealtimeInput(realtimeInput) is called
SendGuesserCall(g) ==
    /\ procAlive
    /\ UNCHANGED <<sendFailed, budget, cliVars, winVars>>
    /\ hpc[g] = "sendGuesser"
    /\ sentG' = [sentG EXCEPT ![g] = Append(@, realtimeInput(g))]
    /\ inflight' = [inflight EXCEPT ![g].guesser = @ + 1]
    /\ hpc' = [hpc EXCEPT ![g] = "sendingGuesser"]
    /\ UNCHANGED <<fatal, gpc, jpc, conn, session, sessionJudge, recvd, sentJ,
                   gRecv, jRecv, clientOut, judgeLog>>

\* mutant of SendGuesserReturn: a frame whose send to the guesser failed is
\* not sent to the judge
SendGuesserReturn_SkipJudgeOnError(g) ==
    /\ procAlive
    /\ hpc[g] = "sendingGuesser"
    /\ \E ok \in BOOLEAN :
          /\ sendFailed' = [sendFailed EXCEPT ![g] = IF ok THEN @ ELSE @ \cup {"guesser"}]
          /\ hpc' = [hpc EXCEPT ![g] = IF ok THEN "sendJudge" ELSE "read"]
    /\ UNCHANGED <<budget, cliVars, winVars>>
    /\ inflight' = [inflight EXCEPT ![g].guesser = @ - 1]
    /\ UNCHANGED <<fatal, gpc, jpc, conn, session, sessionJudge, recvd, sentG,
                   sentJ, gRecv, jRecv, clientOut, judgeLog>>

\* line 221: the call returns, with or without an error; the result is
\* discarded
SendGuesserReturn(g) ==
    /\ procAlive
    /\ hpc[g] = "sendingGuesser"
    /\ \E ok \in BOOLEAN :
          sendFailed' = [sendFailed EXCEPT ![g] = IF ok THEN @ ELSE @ \cup {"guesser"}]
    /\ UNCHANGED <<budget, cliVars, winVars>>
    /\ inflight' = [inflight EXCEPT ![g].guesser = @ - 1]
    /\ hpc' = [hpc EXCEPT ![g] = "sendJudge"]
    /\ UNCHANGED <<fatal, gpc, jpc, conn, session, sessionJudge, recvd, sentG,
                   sentJ, gRecv, jRecv, clientOut, judgeLog>>

\* mutant of SendJudgeCall: the judge is sent a frame only while it has none
SendJudgeCall_FirstOnly(g) ==
    /\ procAlive
    /\ UNCHANGED <<sendFailed, budget, cliVars, winVars>>
    /\ hpc[g] = "sendJudge"
    /\ sentJ' = [sentJ EXCEPT ![g] = IF @ = <<>> THEN Append(@, realtimeInput(g)) ELSE @]
    /\ inflight' = [inflight EXCEPT ![g].judge = @ + 1]
    /\ hpc' = [hpc EXCEPT ![g] = "sendingJudge"]
    /\ UNCHANGED <<fatal, gpc, jpc, conn, session, sessionJudge, recvd, sentG,
                   gRecv, jRecv, clientOut, judgeLog>>

\* line 222: sessionJudge.SendRealtimeInput(realtimeInput) is called
SendJudgeCall(g) ==
    /\ procAlive
    /\ UNCHANGED <<sendFailed, budget, cliVars, winVars>>
    /\ hpc[g] = "sendJudge"
    /\ sentJ' = [sentJ EXCEPT ![g] = Append(@, realtimeInput(g))]
    /\ inflight' = [inflight EXCEPT ![g].judge = @ + 1]
    /\ hpc' = [hpc EXCEPT ![g] = "sendingJudge"]
    /\ UNCHANGED <<fatal, gpc, jpc, conn, session, sessionJudge, recvd, sentG,
                   gRecv, jRecv, clientOut, judgeLog>>

\* mutant of SendJudgeReturn: the handler writes a message to the client
\* when the send failed
SendJudgeReturn_ReportError(g) ==
    /\ procAlive
    /\ hpc[g] = "sendingJudge"
    /\ \E ok \in BOOLEAN :
          /\ sendFailed' = [sendFailed EXCEPT ![g] = IF ok THEN @ ELSE @ \cup {"judge"}]
          /\ clientOut' = [clientOut EXCEPT ![g] =
                              IF ok THEN @
                              ELSE Append(@, Marshal(CHOOSE e \in GuesserEvents : TRUE))]
    /\ UNCHANGED <<budget, cliVars, winVars>>
    /\ inflight' = [inflight EXCEPT ![g].judge = @ - 1]
    /\ hpc' = [hpc EXCEPT ![g] = "read"]
    /\ UNCHANGED <<fatal, gpc, jpc, conn, session, sessionJudge, recvd, sentG,
                   sentJ, gRecv, jRecv, judgeLog>>

\* line 222: the call returns, with or without an error; the result is
\* discarded
SendJudgeReturn(g) ==
    /\ procAlive
    /\ hpc[g] = "sendingJudge"
    /\ \E ok \in BOOLEAN :
          sendFailed' = [sendFailed EXCEPT ![g] = IF ok THEN @ ELSE @ \cup {"judge"}]
    /\ UNCHANGED <<budget, cliVars, winVars>>
    /\ inflight' = [inflight EXCEPT ![g].judge = @ - 1]
    /\ hpc' = [hpc EXCEPT ![g] = "read"]
    /\ UNCHANGED <<fatal, gpc, jpc, conn, session, sessionJudge, recvd, sentG,
                   sentJ, gRecv, jRecv, clientOut, judgeLog>>

\* line 225: go func() { judge loop }, reached only after the break
SpawnJudge(g) ==
    /\ procAlive
    /\ UNCHANGED <<sendFailed, budget, cliVars, winVars>>
    /\ hpc[g] = "spawnJudge"
    /\ jpc' = [jpc EXCEPT ![g] = "recv"]
    /\ hpc' = [hpc EXCEPT ![g] = "deferJudge"]
    /\ UNCHANGED <<fatal, gpc, conn, session, sessionJudge, recvd, sentG, sentJ,
                   inflight, gRecv, jRecv, clientOut, judgeLog>>

\* mutant of DeferCloseJudge: the judge session is not closed
DeferCloseJudge_Skip(g) ==
    /\ procAlive
    /\ UNCHANGED <<sendFailed, budget, cliVars, winVars>>
    /\ hpc[g] = "deferJudge"
    /\ hpc' = [hpc EXCEPT ![g] = "deferSession"]
    /\ UNCHANGED <<fatal, gpc, jpc, conn, session, sessionJudge, recvd, sentG,
                   sentJ, inflight, gRecv, jRecv, clientOut, judgeLog>>

\* line 182, run at return: defer sessionJudge.Close()
DeferCloseJudge(g) ==
    /\ procAlive
    /\ UNCHANGED <<sendFailed, budget, cliVars, winVars>>
    /\ hpc[g] = "deferJudge"
    /\ sessionJudge' = [sessionJudge EXCEPT ![g] = "closed"]
    /\ hpc' = [hpc EXCEPT ![g] = "deferSession"]
    /\ UNCHANGED <<fatal, gpc, jpc, conn, session, recvd, sentG, sentJ,
                   inflight, gRecv, jRecv, clientOut, judgeLog>>

\* mutant of DeferCloseSession: the guesser session is not closed
DeferCloseSession_Skip(g) ==
    /\ procAlive
    /\ UNCHANGED <<sendFailed, budget, cliVars, winVars>>
    /\ hpc[g] = "deferSession"
    /\ hpc' = [hpc EXCEPT ![g] = "deferConn"]
    /\ UNCHANGED <<fatal, gpc, jpc, conn, session, sessionJudge, recvd, sentG,
                   sentJ, inflight, gRecv, jRecv, clientOut, judgeLog>>

\* line 161, run at return: defer session.Close()
DeferCloseSession(g) ==
    /\ procAlive
    /\ UNCHANGED <<sendFailed, budget, cliVars, winVars>>
    /\ hpc[g] = "deferSession"
    /\ session' = [session EXCEPT ![g] = "closed"]
    /\ hpc' = [hpc EXCEPT ![g] = "deferConn"]
    /\ UNCHANGED <<fatal, gpc, jpc, conn, sessionJudge, recvd, sentG, sentJ,
                   inflight, gRecv, jRecv, clientOut, judgeLog>>

\* line 114, run at return: defer c.Close()
DeferCloseConn(g) ==
    /\ procAlive
    /\ UNCHANGED <<sendFailed, budget, cliVars, winVars>>
    /\ hpc[g] = "deferConn"
    /\ conn' = [conn EXCEPT ![g] = "closed"]
    /\ hpc' = [hpc EXCEPT ![g] = "done"]
    /\ UNCHANGED <<fatal, gpc, jpc, session, sessionJudge, recvd, sentG, sentJ,
                   inflight, gRecv, jRecv, clientOut, judgeLog>>

\* ------------------------------------------------- guesser relay goroutine
\* lines 189-193: session.Receive returns a message
GuesserReceiveOk(g, e) ==
    /\ procAlive
    /\ UNCHANGED <<sendFailed, budget, cliVars, winVars>>
    /\ gpc[g] = "recv"
    /\ session[g] = "open"
    /\ EventsReceived < budget.events
    /\ gRecv' = [gRecv EXCEPT ![g] = Append(@, e)]
    /\ gpc' = [gpc EXCEPT ![g] = "write"]
    /\ UNCHANGED <<fatal, hpc, jpc, conn, session, sessionJudge, recvd, sentG,
                   sentJ, inflight, jRecv, clientOut, judgeLog>>

\* GuesserReceiveErr, but the client connection is closed on the way out
GuesserReceiveErr_TearDown(g) ==
    /\ procAlive
    /\ UNCHANGED <<sendFailed, budget, cliVars, winVars>>
    /\ gpc[g] = "recv"
    /\ session[g] = "open"
    /\ gpc' = [gpc EXCEPT ![g] = "recvFailed"]
    /\ conn' = [conn EXCEPT ![g] = "closed"]
    /\ UNCHANGED <<fatal, hpc, jpc, session, sessionJudge, recvd, sentG,
                   sentJ, inflight, gRecv, jRecv, clientOut, judgeLog>>

\* lines 189-193: session.Receive fails while the handle is open (the
\* backend disconnected or errored): return
GuesserReceiveErr(g) ==
    /\ procAlive
    /\ UNCHANGED <<sendFailed, budget, cliVars, winVars>>
    /\ gpc[g] = "recv"
    /\ session[g] = "open"
    /\ gpc' = [gpc EXCEPT ![g] = "recvFailed"]
    /\ UNCHANGED <<fatal, hpc, jpc, conn, session, sessionJudge, recvd, sentG,
                   sentJ, inflight, gRecv, jRecv, clientOut, judgeLog>>

\* lines 189-193: session.Receive on a handle session.Close has closed: return
GuesserReceiveClosed(g) ==
    /\ procAlive
    /\ UNCHANGED <<sendFailed, budget, cliVars, winVars>>
    /\ gpc[g] = "recv"
    /\ session[g] = "closed"
    /\ gpc' = [gpc EXCEPT ![g] = "recvFailed"]
    /\ UNCHANGED <<fatal, hpc, jpc, conn, session, sessionJudge, recvd, sentG,
                   sentJ, inflight, gRecv, jRecv, clientOut, judgeLog>>

\* mutant of GuesserWriteOk: a message equal to the one written last is
\* not written again
GuesserWriteOk_Dedup(g) ==
    /\ procAlive
    /\ UNCHANGED <<sendFailed, budget, cliVars, winVars>>
    /\ gpc[g] = "write"
    /\ conn[g] = "open"
    /\ LET b == Marshal(gRecv[g][Len(gRecv[g])]) IN
       clientOut' = [clientOut EXCEPT ![g] =
                        IF @ # <<>> /\ @[Len(@)] = b THEN @ ELSE Append(@, b)]
    /\ gpc' = [gpc EXCEPT ![g] = "recv"]
    /\ UNCHANGED <<fatal, hpc, jpc, conn, session, sessionJudge, recvd, sentG,
                   sentJ, inflight, gRecv, jRecv, judgeLog>>

\* lines 194-198: json.Marshal and c.WriteMessage succeed.  (json.Marshal
\* of a LiveServerMessage the SDK decoded from JSON does not fail, so the
\* log.Fatal of line 196 is not a step of the model.)
GuesserWriteOk(g) ==
    /\ procAlive
    /\ UNCHANGED <<sendFailed, budget, cliVars, winVars>>
    /\ gpc[g] = "write"
    /\ conn[g] = "open"
    /\ clientOut' = [clientOut EXCEPT ![g] = Append(@, Marshal(gRecv[g][Len(gRecv[g])]))]
    /\ gpc' = [gpc EXCEPT ![g] = "recv"]
    /\ UNCHANGED <<fatal, hpc, jpc, conn, session, sessionJudge, recvd, sentG,
                   sentJ, inflight, gRecv, jRecv, judgeLog>>

\* lines 198-202: c.WriteMessage fails on the open connection: break
GuesserWriteErr(g) ==
    /\ procAlive
    /\ UNCHANGED <<sendFailed, budget, cliVars, winVars>>
    /\ gpc[g] = "write"
    /\ conn[g] = "open"
    /\ gpc' = [gpc EXCEPT ![g] = "writeFailed"]
    /\ UNCHANGED <<fatal, hpc, jpc, conn, session, sessionJudge, recvd, sentG,
                   sentJ, inflight, gRecv, jRecv, clientOut, judgeLog>>

\* lines 198-202: c.WriteMessage on a connection c.Close has closed: break
GuesserWriteClosed(g) ==
    /\ procAlive
    /\ UNCHANGED <<sendFailed, budget, cliVars, winVars>>
    /\ gpc[g] = "write"
    /\ conn[g] = "closed"
    /\ gpc' = [gpc EXCEPT ![g] = "writeFailed"]
    /\ UNCHANGED <<fatal, hpc, jpc, conn, session, sessionJudge, recvd, sentG,
                   sentJ, inflight, gRecv, jRecv, clientOut, judgeLog>>

\* ---------------------------------------------------------- judge goroutine
\* mutant of JudgeReceiveOk: the write of line 240 is made
JudgeReceiveOk_Forward(g, e) ==
    /\ procAlive
    /\ UNCHANGED <<sendFailed, budget, cliVars, winVars>>
    /\ jpc[g] = "recv"
    /\ sessionJudge[g] = "open"
    /\ EventsReceived < budget.events
    /\ jRecv' = [jRecv EXCEPT ![g] = Append(@, e)]
    /\ judgeLog' = [judgeLog EXCEPT ![g] = @ \o JudgeSays(e)]
    /\ clientOut' = [clientOut EXCEPT ![g] = IF JudgeSays(e) # <<>> THEN Append(@, Marshal(e)) ELSE @]
    /\ UNCHANGED <<fatal, hpc, gpc, jpc, conn, session, sessionJudge, recvd,
                   sentG, sentJ, inflight, gRecv>>

\* lines 230-242: sessionJudge.Receive returns a message; its output
\* transcription, when present, is logged; nothing is written to c
JudgeReceiveOk(g, e) ==
    /\ procAlive
    /\ UNCHANGED <<sendFailed, budget, cliVars, winVars>>
    /\ jpc[g] = "recv"
    /\ sessionJudge[g] = "open"
    /\ EventsReceived < budget.events
    /\ jRecv' = [jRecv EXCEPT ![g] = Append(@, e)]
    /\ judgeLog' = [judgeLog EXCEPT ![g] = @ \o JudgeSays(e)]
    /\ UNCHANGED <<fatal, hpc, gpc, jpc, conn, session, sessionJudge, recvd,
                   sentG, sentJ, inflight, gRecv, clientOut>>

\* lines 230-234: sessionJudge.Receive fails while the handle is open: return
JudgeReceiveErr(g) ==
    /\ procAlive
    /\ UNCHANGED <<sendFailed, budget, cliVars, winVars>>
    /\ jpc[g] = "recv"
    /\ sessionJudge[g] = "open"
    /\ jpc' = [jpc EXCEPT ![g] = "recvFailed"]
    /\ UNCHANGED <<fatal, hpc, gpc, conn, session, sessionJudge, recvd, sentG,
                   sentJ, inflight, gRecv, jRecv, clientOut, judgeLog>>

\* lines 230-234: sessionJudge.Receive on a closed handle: return
JudgeReceiveClosed(g) ==
    /\ procAlive
    /\ UNCHANGED <<sendFailed, budget, cliVars, winVars>>
    /\ jpc[g] = "recv"
    /\ sessionJudge[g] = "closed"
    /\ jpc' = [jpc EXCEPT ![g] = "recvFailed"]
    /\ UNCHANGED <<fatal, hpc, gpc, conn, session, sessionJudge, recvd, sentG,
                   sentJ, inflight, gRecv, jRecv, clientOut, judgeLog>>

\* ------------------------------------------ command line game: main's loop
\* the variables of one turn keep their values
TurnUnchanged ==
    UNCHANGED <<lost, forbiddenSaid, forbiddenMatched, mainErr, result,
                mainGroupErr, jt, gt, sfResult, isSameRoot, isTranslated,
                sfErr, sfGroupErr, sr, tr, srAnswer, trAnswer, sfRet,
                sfAnswer>>

\* a panic in any goroutine ends the process
Panics ==
    /\ cpc' = "panic"
    /\ history' = Append(history, "panic")
    /\ UNCHANGED guesses
    /\ TurnUnchanged

\* errgroup.Group: the first non-nil error a task returns is the one Wait
\* returns
FirstError(groupErr, e) == IF groupErr = "nil" THEN e ELSE groupErr

\* Describe, but the loop goes on while guesses >= 0
Describe_OffByOne ==
    /\ cpc = "describe"
    /\ guesses >= 0
    /\ cpc' = "wait"
    /\ jt' = "generate"
    /\ gt' = "call"
    /\ UNCHANGED <<guesses, history, sfAnswer, lost, forbiddenSaid, forbiddenMatched,
                   mainErr, result, mainGroupErr, sfResult, isSameRoot,
                   isTranslated, sfErr, sfGroupErr, sr, tr, srAnswer,
                   trAnswer, sfRet>>
    /\ UNCHANGED <<liveVars, winVars>>

\* lines 210-230: the loop condition holds, the description is read and both
\* tasks of the turn are started
Describe ==
    /\ cpc = "describe"
    /\ guesses > 0
    /\ cpc' = "wait"
    /\ jt' = "generate"
    /\ gt' = "call"
    /\ UNCHANGED <<guesses, history, sfAnswer, lost, forbiddenSaid, forbiddenMatched,
                   mainErr, result, mainGroupErr, sfResult, isSameRoot,
                   isTranslated, sfErr, sfGroupErr, sr, tr, srAnswer,
                   trAnswer, sfRet>>
    /\ UNCHANGED <<liveVars, winVars>>

\* lines 210, 264: the loop condition fails, the secret word is printed
LoopExit ==
    /\ cpc = "describe"
    /\ guesses = 0
    /\ cpc' = "wordWas"
    /\ UNCHANGED <<guesses, history>>
    /\ TurnUnchanged
    /\ UNCHANGED <<liveVars, winVars>>

\* saidForbidden returns (l, s, m, e) and the judge task assigns them to
\* main's lost, forbiddenSaid, forbiddenMatched and err (line 221)
SfReturns(l, s, m, e, after) ==
    /\ sfRet' = [returned |-> TRUE, lost |-> l, said |-> s, matched |-> m,
                 err |-> e, afterChecks |-> after]
    /\ lost' = l
    /\ forbiddenSaid' = s
    /\ forbiddenMatched' = m
    /\ mainErr' = e
    /\ jt' = "ret"

\* JudgeGenerate, but the checks are issued whatever the judgment says
JudgeGenerate_AlwaysChecks(o) ==
    /\ cpc = "wait"
    /\ jt = "generate"
    /\ UNCHANGED <<liveVars, winVars>>
    /\ CASE o.kind = "err" ->
              /\ SfReturns(FALSE, <<>>, <<>>, "eJudge", FALSE)
              /\ sfErr' = "eJudge"
              /\ sfAnswer' = o.kind
              /\ UNCHANGED <<cpc, guesses, history, result, mainGroupErr, gt,
                             sfResult, isSameRoot, isTranslated, sfGroupErr,
                             sr, tr, srAnswer, trAnswer>>
         [] o.kind = "empty" -> Panics
         [] o.kind = "unparsable" ->
              /\ SfReturns(FALSE, <<>>, <<>>, "eParse", FALSE)
              /\ sfAnswer' = o.kind
              /\ UNCHANGED <<cpc, guesses, history, result, mainGroupErr, gt,
                             sfResult, isSameRoot, isTranslated, sfErr,
                             sfGroupErr, sr, tr, srAnswer, trAnswer>>
         [] o.kind = "json" ->
              /\ sfResult' = [lost |-> o.lost, forbiddenWord |-> o.forbiddenWord,
                              fragment |-> o.fragment]
              /\ sr' = "call"
              /\ tr' = "call"
              /\ jt' = "join"
              /\ sfAnswer' = o.kind
              /\ UNCHANGED <<cpc, guesses, history, lost, forbiddenSaid,
                             forbiddenMatched, mainErr, result, mainGroupErr,
                             gt, isSameRoot, isTranslated, sfErr, sfGroupErr,
                             srAnswer, trAnswer, sfRet>>

\* JudgeGenerate, but an answer that does not parse is taken as no violation
JudgeGenerate_ParseErrorDropped(o) ==
    /\ cpc = "wait"
    /\ jt = "generate"
    /\ UNCHANGED <<liveVars, winVars>>
    /\ CASE o.kind = "err" ->
              /\ SfReturns(FALSE, <<>>, <<>>, "eJudge", FALSE)
              /\ sfErr' = "eJudge"
              /\ sfAnswer' = o.kind
              /\ UNCHANGED <<cpc, guesses, history, result, mainGroupErr, gt,
                             sfResult, isSameRoot, isTranslated, sfGroupErr,
                             sr, tr, srAnswer, trAnswer>>
         [] o.kind = "empty" -> Panics
         [] o.kind = "unparsable" ->
              /\ SfReturns(FALSE, <<>>, <<>>, "nil", FALSE)
              /\ sfAnswer' = o.kind
              /\ UNCHANGED <<cpc, guesses, history, result, mainGroupErr, gt,
                             sfResult, isSameRoot, isTranslated, sfErr,
                             sfGroupErr, sr, tr, srAnswer, trAnswer>>
         [] o.kind = "json" /\ ~o.lost ->
              /\ SfReturns(FALSE, <<>>, <<>>, "nil", FALSE)
              /\ sfResult' = [lost |-> o.lost, forbiddenWord |-> o.forbiddenWord,
                              fragment |-> o.fragment]
              /\ sfAnswer' = o.kind
              /\ UNCHANGED <<cpc, guesses, history, result, mainGroupErr, gt,
                             isSameRoot, isTranslated, sfErr, sfGroupErr,
                             sr, tr, srAnswer, trAnswer>>
         [] o.kind = "json" /\ o.lost ->
              /\ sfResult' = [lost |-> o.lost, forbiddenWord |-> o.forbiddenWord,
                              fragment |-> o.fragment]
              /\ sr' = "call"
              /\ tr' = "call"
              /\ jt' = "join"
              /\ sfAnswer' = o.kind
              /\ UNCHANGED <<cpc, guesses, history, lost, forbiddenSaid,
                             forbiddenMatched, mainErr, result, mainGroupErr,
                             gt, isSameRoot, isTranslated, sfErr, sfGroupErr,
                             srAnswer, trAnswer, sfRet>>

\* lines 354-380 and 384-392: the structured judgment comes back
JudgeGenerate(o) ==
    /\ cpc = "wait"
    /\ jt = "generate"
    /\ UNCHANGED <<liveVars, winVars>>
    /\ CASE o.kind = "err" ->
              /\ SfReturns(FALSE, <<>>, <<>>, "eJudge", FALSE)
              /\ sfErr' = "eJudge"
              /\ sfAnswer' = o.kind
              /\ UNCHANGED <<cpc, guesses, history, result, mainGroupErr, gt,
                             sfResult, isSameRoot, isTranslated, sfGroupErr,
                             sr, tr, srAnswer, trAnswer>>
         [] o.kind = "empty" -> Panics
         [] o.kind = "unparsable" ->
              /\ SfReturns(FALSE, <<>>, <<>>, "eParse", FALSE)
              /\ sfAnswer' = o.kind
              /\ UNCHANGED <<cpc, guesses, history, result, mainGroupErr, gt,
                             sfResult, isSameRoot, isTranslated, sfErr,
                             sfGroupErr, sr, tr, srAnswer, trAnswer>>
         [] o.kind = "json" /\ ~o.lost ->
              /\ SfReturns(FALSE, <<>>, <<>>, "nil", FALSE)
              /\ sfResult' = [lost |-> o.lost, forbiddenWord |-> o.forbiddenWord,
                              fragment |-> o.fragment]
              /\ sfAnswer' = o.kind
              /\ UNCHANGED <<cpc, guesses, history, result, mainGroupErr, gt,
                             isSameRoot, isTranslated, sfErr, sfGroupErr,
                             sr, tr, srAnswer, trAnswer>>
         [] o.kind = "json" /\ o.lost ->
              /\ sfResult' = [lost |-> o.lost, forbiddenWord |-> o.forbiddenWord,
                              fragment |-> o.fragment]
              /\ sr' = "call"
              /\ tr' = "call"
              /\ jt' = "join"
              /\ sfAnswer' = o.kind
              /\ UNCHANGED <<cpc, guesses, history, lost, forbiddenSaid,
                             forbiddenMatched, mainErr, result, mainGroupErr,
                             gt, isSameRoot, isTranslated, sfErr, sfGroupErr,
                             srAnswer, trAnswer, sfRet>>

\* line 386 with lines 415-434: haveSameRoot comes back and the task assigns
\* isSameRoot and err
SameRootReturns(o) ==
    /\ cpc = "wait"
    /\ sr = "call"
    /\ UNCHANGED <<liveVars, winVars>>
    /\ IF o = "empty" THEN Panics
       ELSE /\ isSameRoot' = (o # "err" /\ SaysYes(o))
            /\ sfErr' = IF o = "err" THEN "eRoot" ELSE "nil"
            /\ srAnswer' = o
            /\ sr' = "ret"
            /\ UNCHANGED <<cpc, guesses, history, sfAnswer, lost, forbiddenSaid,
                           forbiddenMatched, mainErr, result, mainGroupErr,
                           jt, gt, sfResult, isTranslated, sfGroupErr, tr,
                           trAnswer, sfRet>>

\* line 387: the task returns the err it reads now
SameRootTaskReturn ==
    /\ cpc = "wait"
    /\ sr = "ret"
    /\ sfGroupErr' = FirstError(sfGroupErr, sfErr)
    /\ sr' = "done"
    /\ UNCHANGED <<cpc, guesses, history, sfAnswer, lost, forbiddenSaid,
                   forbiddenMatched, mainErr, result, mainGroupErr, jt, gt,
                   sfResult, isSameRoot, isTranslated, sfErr, tr, srAnswer,
                   trAnswer, sfRet>>
    /\ UNCHANGED <<liveVars, winVars>>

\* line 390 with lines 436-454: isTranslation comes back and the task assigns
\* isTranslated and err
TranslationReturns(o) ==
    /\ cpc = "wait"
    /\ tr = "call"
    /\ UNCHANGED <<liveVars, winVars>>
    /\ IF o = "empty" THEN Panics
       ELSE /\ isTranslated' = (o # "err" /\ SaysYes(o))
            /\ sfErr' = IF o = "err" THEN "eTrans" ELSE "nil"
            /\ trAnswer' = o
            /\ tr' = "ret"
            /\ UNCHANGED <<cpc, guesses, history, sfAnswer, lost, forbiddenSaid,
                           forbiddenMatched, mainErr, result, mainGroupErr,
                           jt, gt, sfResult, isSameRoot, sfGroupErr, sr,
                           srAnswer, sfRet>>

\* line 391: the task returns the err it reads now
TranslationTaskReturn ==
    /\ cpc = "wait"
    /\ tr = "ret"
    /\ sfGroupErr' = FirstError(sfGroupErr, sfErr)
    /\ tr' = "done"
    /\ UNCHANGED <<cpc, guesses, history, sfAnswer, lost, forbiddenSaid,
                   forbiddenMatched, mainErr, result, mainGroupErr, jt, gt,
                   sfResult, isSameRoot, isTranslated, sfErr, sr, srAnswer,
                   trAnswer, sfRet>>
    /\ UNCHANGED <<liveVars, winVars>>

\* JudgeChecksJoined, but a verdict needs both checks to say yes
JudgeChecksJoined_BothNeeded ==
    /\ cpc = "wait"
    /\ jt = "join"
    /\ sr = "done"
    /\ tr = "done"
    /\ sfErr' = sfGroupErr
    /\ IF sfGroupErr # "nil"
          THEN SfReturns(FALSE, <<>>, <<>>, sfGroupErr, TRUE)
          ELSE IF ~isSameRoot \/ ~isTranslated
                  THEN SfReturns(FALSE, <<>>, <<>>, "nil", TRUE)
                  ELSE SfReturns(sfResult.lost, sfResult.fragment,
                                 sfResult.forbiddenWord, "nil", TRUE)
    /\ UNCHANGED <<cpc, guesses, history, sfAnswer, result, mainGroupErr, gt, sfResult,
                   isSameRoot, isTranslated, sfGroupErr, sr, tr, srAnswer,
                   trAnswer>>
    /\ UNCHANGED <<liveVars, winVars>>

\* lines 393-412: Wait returns once both checks are done; error, false alarm
\* or the judgment
JudgeChecksJoined ==
    /\ cpc = "wait"
    /\ jt = "join"
    /\ sr = "done"
    /\ tr = "done"
    /\ sfErr' = sfGroupErr
    /\ IF sfGroupErr # "nil"
          THEN SfReturns(FALSE, <<>>, <<>>, sfGroupErr, TRUE)
          ELSE IF ~isSameRoot /\ ~isTranslated
                  THEN SfReturns(FALSE, <<>>, <<>>, "nil", TRUE)
                  ELSE SfReturns(sfResult.lost, sfResult.fragment,
                                 sfResult.forbiddenWord, "nil", TRUE)
    /\ UNCHANGED <<cpc, guesses, history, sfAnswer, result, mainGroupErr, gt, sfResult,
                   isSameRoot, isTranslated, sfGroupErr, sr, tr, srAnswer,
                   trAnswer>>
    /\ UNCHANGED <<liveVars, winVars>>

\* line 222: the judge task returns the err it reads now
JudgeTaskReturn ==
    /\ cpc = "wait"
    /\ jt = "ret"
    /\ mainGroupErr' = FirstError(mainGroupErr, mainErr)
    /\ jt' = "done"
    /\ UNCHANGED <<cpc, guesses, history, sfAnswer, lost, forbiddenSaid,
                   forbiddenMatched, mainErr, result, gt, sfResult,
                   isSameRoot, isTranslated, sfErr, sfGroupErr, sr, tr,
                   srAnswer, trAnswer, sfRet>>
    /\ UNCHANGED <<liveVars, winVars>>

\* line 228: chat.SendMessage comes back and the guesser task assigns result
\* and err
GuessReturns(o) ==
    /\ cpc = "wait"
    /\ gt = "call"
    /\ result' = IF o.kind = "err" THEN NilResponse ELSE o
    /\ mainErr' = IF o.kind = "err" THEN "eGuess" ELSE "nil"
    /\ gt' = "ret"
    /\ UNCHANGED <<cpc, guesses, history, sfAnswer, lost, forbiddenSaid,
                   forbiddenMatched, mainGroupErr, jt, sfResult, isSameRoot,
                   isTranslated, sfErr, sfGroupErr, sr, tr, srAnswer,
                   trAnswer, sfRet>>
    /\ UNCHANGED <<liveVars, winVars>>

\* line 229: the guesser task returns the err it reads now
GuessTaskReturn ==
    /\ cpc = "wait"
    /\ gt = "ret"
    /\ mainGroupErr' = FirstError(mainGroupErr, mainErr)
    /\ gt' = "done"
    /\ UNCHANGED <<cpc, guesses, history, sfAnswer, lost, forbiddenSaid,
                   forbiddenMatched, mainErr, result, jt, sfResult,
                   isSameRoot, isTranslated, sfErr, sfGroupErr, sr, tr,
                   srAnswer, trAnswer, sfRet>>
    /\ UNCHANGED <<liveVars, winVars>>

\* the next iteration declares the variables of the loop body anew
NextTurnFresh ==
    /\ lost' = FALSE
    /\ forbiddenSaid' = <<>>
    /\ forbiddenMatched' = <<>>
    /\ result' = NilResponse
    /\ mainGroupErr' = "nil"
    /\ jt' = "idle"
    /\ gt' = "idle"
    /\ sfResult' = [lost |-> FALSE, forbiddenWord |-> <<>>, fragment |-> <<>>]
    /\ isSameRoot' = FALSE
    /\ isTranslated' = FALSE
    /\ sfErr' = "nil"
    /\ sfGroupErr' = "nil"
    /\ sr' = "idle"
    /\ tr' = "idle"
    /\ srAnswer' = "none"
    /\ trAnswer' = "none"
    /\ sfRet' = NoReturn
    /\ sfAnswer' = "none"

\* the game is over: main returned or the process ended
Ends(how) ==
    /\ cpc' = how
    /\ history' = Append(history, how)
    /\ UNCHANGED guesses
    /\ TurnUnchanged

\* EvaluateTurn, but a winning guess is looked at before the judge's verdict
EvaluateTurn_WinFirst ==
    /\ cpc = "wait"
    /\ jt = "done"
    /\ gt = "done"
    /\ UNCHANGED <<liveVars, winVars>>
    /\ CASE mainGroupErr # "nil" -> Ends("fatal")
         [] mainGroupErr = "nil" /\ lost
              /\ ~(result.kind = "text" /\ isWinning(result.text, Word)) ->
              IF normalize(forbiddenSaid) = normalize(forbiddenMatched)
                 THEN Ends("lossExact")
                 ELSE Ends("lossFuzzy")
         [] mainGroupErr = "nil" /\ ~lost /\ result.kind = "nil" -> Panics
         [] mainGroupErr = "nil" /\ ~lost /\ result.kind = "empty" ->
              Ends("fatalEmpty")
         [] mainGroupErr = "nil" /\ result.kind = "text"
              /\ (~lost \/ isWinning(result.text, Word)) ->
              IF isWinning(result.text, Word)
                 THEN Ends("win")
                 ELSE /\ guesses' = guesses - 1
                      /\ history' = Append(history, "miss")
                      /\ cpc' = "describe"
                      /\ UNCHANGED mainErr
                      /\ NextTurnFresh

\* lines 232-262: Wait returns once both tasks are done, then the turn is
\* evaluated: error, loss, the guess, win, or one guess less
EvaluateTurn ==
    /\ cpc = "wait"
    /\ jt = "done"
    /\ gt = "done"
    /\ UNCHANGED <<liveVars, winVars>>
    /\ CASE mainGroupErr # "nil" -> Ends("fatal")
         [] mainGroupErr = "nil" /\ lost ->
              IF normalize(forbiddenSaid) = normalize(forbiddenMatched)
                 THEN Ends("lossExact")
                 ELSE Ends("lossFuzzy")
         [] mainGroupErr = "nil" /\ ~lost /\ result.kind = "nil" -> Panics
         [] mainGroupErr = "nil" /\ ~lost /\ result.kind = "empty" ->
              Ends("fatalEmpty")
         [] mainGroupErr = "nil" /\ ~lost /\ result.kind = "text" ->
              IF isWinning(result.text, Word)
                 THEN Ends("win")
                 ELSE /\ guesses' = guesses - 1
                      /\ history' = Append(history, "miss")
                      /\ cpc' = "describe"
                      /\ UNCHANGED mainErr
                      /\ NextTurnFresh

\* ------------------------------------------------------------ specification
Next ==
    \/ \E g \in Games, lang \in RequestLangs : Request(g, lang)
    \/ \E g \in Games, ok \in BOOLEAN : Upgrade(g, ok)
    \/ \E g \in Games, ok \in BOOLEAN : ConnectGuesser(g, ok)
    \/ \E g \in Games, ok \in BOOLEAN : ConnectJudge(g, ok)
    \/ \E g \in Games : SpawnGuesser(g)
    \/ \E g \in Games, m \in RawMessages : ReadMessageOk(g, m)
    \/ \E g \in Games : ReadMessageErr(g)
    \/ \E g \in Games : UnmarshalInput(g)
    \/ \E g \in Games : SendGuesserCall(g)
    \/ \E g \in Games : SendGuesserReturn(g)
    \/ \E g \in Games : SendJudgeCall(g)
    \/ \E g \in Games : SendJudgeReturn(g)
    \/ \E g \in Games : SpawnJudge(g)
    \/ \E g \in Games : DeferCloseJudge(g)
    \/ \E g \in Games : DeferCloseSession(g)
    \/ \E g \in Games : DeferCloseConn(g)
    \/ \E g \in Games, e \in GuesserEvents : GuesserReceiveOk(g, e)
    \/ \E g \in Games : GuesserReceiveErr(g)
    \/ \E g \in Games : GuesserReceiveClosed(g)
    \/ \E g \in Games : GuesserWriteOk(g)
    \/ \E g \in Games : GuesserWriteErr(g)
    \/ \E g \in Games : GuesserWriteClosed(g)
    \/ \E g \in Games, e \in JudgeEvents : JudgeReceiveOk(g, e)
    \/ \E g \in Games : JudgeReceiveErr(g)
    \/ \E g \in Games : JudgeReceiveClosed(g)

Spec == Init /\ [][Next]_vars

SpecTwo == InitTwo /\ [][Next]_vars

\* The Go scheduler runs every goroutine that is not blocked: a step that
\* waits for nothing outside the process is taken eventually, and so is the
\* return of a call on a handle this process has closed.  Nothing is assumed
\* of the client or the backend: a read or receive on an open connection may
\* block forever.
Fairness ==
    \A g \in Games :
        /\ WF_vars(SpawnGuesser(g))
        /\ WF_vars(UnmarshalInput(g))
        /\ WF_vars(SendGuesserCall(g))
        /\ WF_vars(SendGuesserReturn(g))
        /\ WF_vars(SendJudgeCall(g))
        /\ WF_vars(SendJudgeReturn(g))
        /\ WF_vars(SpawnJudge(g))
        /\ WF_vars(DeferCloseJudge(g))
        /\ WF_vars(DeferCloseSession(g))
        /\ WF_vars(DeferCloseConn(g))
        /\ WF_vars(GuesserReceiveClosed(g))
        /\ WF_vars(GuesserWriteClosed(g))
        /\ WF_vars(JudgeReceiveClosed(g))

FairSpec == Spec /\ Fairness

\* the command line game alone: no client ever connects to the server
InitCLI == InitFor({})

NextCLI ==
    \/ Describe
    \/ LoopExit
    \/ \E o \in JudgeOutcomes : JudgeGenerate(o)
    \/ \E o \in CheckOutcomes : SameRootReturns(o)
    \/ SameRootTaskReturn
    \/ \E o \in CheckOutcomes : TranslationReturns(o)
    \/ TranslationTaskReturn
    \/ JudgeChecksJoined
    \/ JudgeTaskReturn
    \/ \E o \in GuessOutcomes : GuessReturns(o)
    \/ GuessTaskReturn
    \/ EvaluateTurn

SpecCLI == InitCLI /\ [][NextCLI]_vars

\* isWinning alone: any guess against any secret word
InitWin ==
    /\ LiveInit({}, [frames |-> MaxFrames, events |-> MaxEvents])
    /\ CliInit
    /\ wGuess \in Strings
    /\ wWord \in Strings
    /\ wResult = <<>>

\* lines 267-271: isWinning is applied to the guess
ApplyIsWinning ==
    /\ wResult = <<>>
    /\ wResult' = <<isWinning(wGuess, wWord)>>
    /\ UNCHANGED <<wGuess, wWord, liveVars, cliVars>>

NextWin == ApplyIsWinning

SpecWin == InitWin /\ [][NextWin]_vars

\* ------------------------------------------------------------- properties
IsPrefix(s, t) == Len(s) <= Len(t) /\ SubSeq(t, 1, Len(s)) = s

\* the handler is inside an iteration of the fan-out loop, after the read
MidFrame == {"unmarshal", "sendGuesser", "sendingGuesser", "sendJudge", "sendingJudge"}

\* the handler is in the client fan-out loop (lines 206-223)
FanOutLoop == {"read"} \cup MidFrame

\* the inputs deserialized from the messages ms, in order, a message that
\* fails deserialization giving none
RECURSIVE Decoded(_)
Decoded(ms) ==
    IF ms = <<>> THEN <<>>
    ELSE LET r == Unmarshal(Head(ms)) IN
         (IF r.err THEN <<>> ELSE <<r.val>>) \o Decoded(Tail(ms))

\* C1 as stated: outside an iteration of the fan-out loop, the guesser and
\* the judge session have each been sent one input per message read from the
\* client, the i-th being the i-th message read.
C1_EveryFrameReadIsSent ==
    \A g \in Games :
        hpc[g] \notin MidFrame =>
            /\ Len(sentG[g]) = Len(recvd[g])
            /\ Len(sentJ[g]) = Len(recvd[g])
            /\ \A i \in 1..Len(recvd[g]) :
                  /\ i <= Len(sentG[g]) => sentG[g][i] = Unmarshal(recvd[g][i]).val
                  /\ i <= Len(sentJ[g]) => sentJ[g][i] = Unmarshal(recvd[g][i]).val

\* C1 amended: the judge session has been sent a prefix of what the guesser
\* session has been sent, which is a prefix of the inputs deserialized from
\* the messages read, in the order read; outside an iteration of the fan-out
\* loop both have been sent all of them.  A message that fails
\* deserialization is sent to neither session.
C1_FanOutInOrder ==
    \A g \in Games :
        /\ IsPrefix(sentJ[g], sentG[g])
        /\ IsPrefix(sentG[g], Decoded(recvd[g]))
        /\ hpc[g] \notin MidFrame =>
              /\ sentG[g] = Decoded(recvd[g])
              /\ sentJ[g] = Decoded(recvd[g])

\* two different frames have been fanned out to both sessions and the loop
\* is about to read again
C1_Witness ==
    \E g \in Games :
        /\ hpc[g] = "read"
        /\ Len(sentJ[g]) = 2
        /\ sentJ[g][1] # sentJ[g][2]
        /\ sentG[g] = sentJ[g]

C3_JudgeLoopRunsDuringFanOut ==
    \A g \in Games :
        hpc[g] \in FanOutLoop => jpc[g] # "none"

\* the handler has returned
Returned == {"notfound", "done"}

\* a goroutine that was never started or has left its loop
LoopOver == {"none", "recvFailed", "writeFailed"}

\* C4 as stated: once a receive on the guesser or on the judge session has
\* failed, the game eventually terminates: the handler leaves the fan-out
\* loop and returns (or the process has ended).
C4_SessionFailureEndsGame ==
    \A g \in Games :
        (gpc[g] = "recvFailed" \/ jpc[g] = "recvFailed")
            ~> (hpc[g] \in Returned \/ ~procAlive)

\* the last message game g read failed deserialization and the handler has
\* dealt with it
MalformedHandled(g) ==
    /\ recvd[g] # <<>>
    /\ Unmarshal(recvd[g][Len(recvd[g])]).err
    /\ hpc[g] # "unmarshal"

\* C5 as stated: after a game has read a frame that fails deserialization
\* the process keeps running, so every other game that is in its fan-out
\* loop goes on relaying.
C5_MalformedFrameSparesOtherGames ==
    \A g \in Games, h \in Games :
        (g # h /\ MalformedHandled(g) /\ hpc[h] \in FanOutLoop) => procAlive

\* C6: when the handler has finished after a failed read from the client,
\* the judge session, the guesser session and the client connection are
\* closed.
C6_AllClosedAtReturn ==
    \A g \in Games :
        hpc[g] = "done" =>
            /\ sessionJudge[g] = "closed"
            /\ session[g] = "closed"
            /\ conn[g] = "closed"

\* a game that relayed a frame has finished after its read failed
C6_Witness ==
    \E g \in Games :
        /\ hpc[g] = "done"
        /\ Len(sentJ[g]) >= 1

\* C7: whenever the handler has returned, both session handles it opened
\* are closed, and eventually the guesser relay loop and the judge loop have
\* ended too (a receive on a closed session fails).
C7_LoopsEndAfterReturn ==
    \A g \in Games :
        /\ [](hpc[g] \in Returned =>
                /\ session[g] \in {"none", "closed"}
                /\ sessionJudge[g] \in {"none", "closed"})
        /\ (hpc[g] \in Returned)
              ~> (~procAlive \/ (gpc[g] \in LoopOver /\ jpc[g] \in LoopOver))

\* the handler has returned, the judge loop ran and received a message, and
\* both goroutines have ended on a failed call
C7_Witness ==
    \E g \in Games :
        /\ hpc[g] = "done"
        /\ gpc[g] \in {"recvFailed", "writeFailed"}
        /\ jpc[g] = "recvFailed"
        /\ Len(jRecv[g]) >= 1

\* the log.Fatal calls that follow a failed connection attempt
TransportFatal == {"upgrade", "connect", "connectJudge"}

\* C8 as stated: no transport error ends the server process.
C8_TransportErrorSparesProcess ==
    fatal \notin TransportFatal

\* C9: at most one send is in flight on each session, and the judge session
\* has been sent as many frames as the guesser session only when the send of
\* the last of them to the guesser has returned.
C9_SendsSerialized ==
    \A g \in Games :
        /\ inflight[g].guesser <= 1
        /\ inflight[g].judge <= 1
        /\ Len(sentJ[g]) <= Len(sentG[g])
        /\ Len(sentJ[g]) = Len(sentG[g]) => inflight[g].guesser = 0
        /\ inflight[g].judge = 1 =>
              /\ Len(sentJ[g]) = Len(sentG[g])
              /\ sentJ[g][Len(sentJ[g])] = sentG[g][Len(sentG[g])]

\* the second frame's send to the judge is in flight
C9_Witness ==
    \E g \in Games :
        /\ inflight[g].judge = 1
        /\ Len(sentJ[g]) = 2

\* C10: the client has been written the serializations of the messages
\* received from the guesser, in the order received, each once: all of them
\* when the relay loop is at its receive, all but the last while the write of
\* the last is pending or has failed.
C10_GuesserRelayedInOrder ==
    \A g \in Games :
        LET out == [i \in 1..Len(gRecv[g]) |-> Marshal(gRecv[g][i])] IN
        /\ IsPrefix(clientOut[g], out)
        /\ Len(clientOut[g]) >= Len(out) - 1
        /\ gpc[g] \in {"recv", "recvFailed"} => clientOut[g] = out
        /\ clientOut[g] # out => gpc[g] \in {"write", "writeFailed"}

\* two messages of the guesser have been relayed and the loop is at its
\* receive again
C10_Witness ==
    \E g \in Games :
        /\ gpc[g] = "recv"
        /\ Len(clientOut[g]) = 2

\* ------------------------------------------ command line game: properties
\* C11: whenever saidForbidden has returned, its verdict is lost exactly
\* when it returns no error, the structured judgment has lost = true and at
\* least one of the two confirmation checks answered yes; a lost verdict
\* carries the judgment's fragment and forbiddenWord, any other result
\* carries empty strings, and two checks that both resolve false give
\* lost = false (false alarm).
C11_VerdictNeedsConfirmation ==
    sfRet.returned =>
        /\ sfRet.lost <=> /\ sfRet.err = "nil"
                          /\ sfResult.lost
                          /\ SaysYes(srAnswer) \/ SaysYes(trAnswer)
        /\ sfRet.lost => /\ sfRet.said = sfResult.fragment
                         /\ sfRet.matched = sfResult.forbiddenWord
        /\ ~sfRet.lost => sfRet.said = <<>> /\ sfRet.matched = <<>>
        /\ (sfRet.afterChecks /\ ~SaysYes(srAnswer) /\ ~SaysYes(trAnswer))
              => ~sfRet.lost

\* a verdict of lost that only the translation check confirmed
C11_Witness ==
    /\ sfRet.returned
    /\ sfRet.lost
    /\ sfRet.said = <<"a">>
    /\ srAnswer = "No"
    /\ trAnswer = "Yes"

\* C12: when the structured judgment has lost = false (as when it could not
\* be obtained), neither confirmation check is ever issued, and the result
\* for a parsed judgment with lost = false is no violation: lost = false,
\* empty strings, no error.
C12_NoChecksWithoutSuspicion ==
    /\ ~sfResult.lost =>
          /\ sr = "idle" /\ tr = "idle"
          /\ srAnswer = "none" /\ trAnswer = "none"
    /\ (sfRet.returned /\ ~sfResult.lost /\ sfRet.err \notin {"eJudge", "eParse"})
          => sfRet = [returned |-> TRUE, lost |-> FALSE, said |-> <<>>,
                      matched |-> <<>>, err |-> "nil", afterChecks |-> FALSE]

\* the judgment named a word and a fragment but said lost = false, and
\* saidForbidden has returned
C12_Witness ==
    /\ sfRet.returned
    /\ ~sfResult.lost
    /\ sfResult.fragment = <<"a">>
    /\ sfResult.forbiddenWord = <<"E">>

\* C13: once saidForbidden has returned after issuing the two checks, both
\* checks have completed, and the outcome is both answers when neither check
\* failed and otherwise an error of a check that failed.
C13_BothAnswersOrFirstError ==
    (sfRet.returned /\ sfRet.afterChecks) =>
        /\ sr = "done" /\ tr = "done"
        /\ srAnswer # "none" /\ trAnswer # "none"
        /\ IF srAnswer = "err" \/ trAnswer = "err"
              THEN sfRet.err \in ({"eRoot"} \cap (IF srAnswer = "err" THEN {"eRoot"} ELSE {}))
                                 \cup ({"eTrans"} \cap (IF trAnswer = "err" THEN {"eTrans"} ELSE {}))
              ELSE sfRet.err = "nil"

\* how main ends after evaluating a turn with a loss
Losses == {"lossExact", "lossFuzzy"}

\* C14: while a turn is waited for, the judge task and the guesser task have
\* both been started; the turn is evaluated only when both are done; and
\* once the judge's verdict is lost the game never reports a win: it ends as
\* a loss in that turn whenever the guesser's request produced a response,
\* even one that contains the secret word.
C14_LossBeforeWin ==
    /\ cpc = "wait" => jt # "idle" /\ gt # "idle"
    /\ cpc \in Losses \cup {"win", "fatal", "fatalEmpty"} =>
          jt = "done" /\ gt = "done"
    /\ (sfRet.returned /\ sfRet.lost /\ cpc # "wait") =>
          /\ cpc # "win"
          /\ result.kind # "nil" => cpc \in Losses

\* a loss in a turn where the guesser's answer contains the secret word
C14_Witness ==
    /\ cpc \in Losses
    /\ sfRet.lost
    /\ result.kind = "text"
    /\ isWinning(result.text, Word)

\* the turns of the history that ended with a guess that did not match
Misses(h) == Len(SelectSeq(h, LAMBDA x : x = "miss"))

\* C15: the guess counter starts at 3, stays within 0..3 and is 3 minus the
\* number of turns that were neither a loss nor a win; the game has at most
\* 3 turns and nothing follows a turn that is not a miss; a turn is a miss
\* only if its guess does not match the secret word and a win only if it
\* does; a description is requested only while the counter is positive; and
\* the secret word is reported exactly after 3 misses.
C15_AtMostThreeTurns ==
    /\ [](/\ guesses \in 0..InitialGuesses
          /\ guesses = InitialGuesses - Misses(history)
          /\ Len(history) + (IF cpc = "wait" THEN 1 ELSE 0) <= InitialGuesses
          /\ \A i \in 1..(Len(history) - 1) : history[i] = "miss"
          /\ (history # <<>> /\ history[Len(history)] # "miss")
                => cpc = history[Len(history)]
          /\ cpc = "win" => ~lost /\ isWinning(result.text, Word)
          /\ cpc = "wordWas" => guesses = 0 /\ Misses(history) = InitialGuesses)
    /\ [][/\ (cpc = "describe" /\ cpc' = "wait") => guesses > 0
          /\ Misses(history') > Misses(history) =>
                /\ guesses' = guesses - 1
                /\ ~lost
                /\ result.kind = "text"
                /\ ~isWinning(result.text, Word)
          /\ guesses' # guesses => Misses(history') = Misses(history) + 1]_vars

\* a win in the third turn, after two guesses that missed
C15_Witness ==
    /\ cpc = "win"
    /\ history = <<"miss", "miss", "win">>
    /\ guesses = 1

\* a rune lowercased and without its diacritic; a combining mark is a
\* diacritic of the rune before it
FoldRune(c) ==
    CASE c \in {"e", "E", "e+", "E+"} -> <<"e">>
      [] c = "a" -> <<"a">>
      [] c = "+" -> <<>>

\* a string lowercased and with its diacritics stripped
RECURSIVE Fold(_)
Fold(s) == IF s = <<>> THEN <<>> ELSE FoldRune(Head(s)) \o Fold(Tail(s))

\* t occurs in s as a contiguous substring
Occurs(t, s) ==
    \E i \in 0..Len(s) :
        /\ i + Len(t) <= Len(s)
        /\ \A j \in 1..Len(t) : s[i + j] = t[j]

\* C16: isWinning returns true exactly when the guess, lowercased and with
\* diacritics stripped, contains the secret word, lowercased and with
\* diacritics stripped, as a contiguous substring; the guess and the word
\* that differ from the inputs only by case and diacritics give the same
\* result.
C16_WinIffNormalizedContains ==
    wResult # <<>> =>
        /\ wResult[1] <=> Occurs(Fold(wWord), Fold(wGuess))
        /\ wResult[1] <=> isWinning(Fold(wGuess), Fold(wWord))

\* a guess that contains the word up to case, precomposed against combining
\* accent
C16_Witness ==
    /\ wResult = <<TRUE>>
    /\ wGuess = <<"a", "E+">>
    /\ wWord = <<"e", "+">>

\* the errors of the requests to the AI backend: structured judgment, the
\* two confirmation checks, guess generation
BackendErrors == {"eJudge", "eRoot", "eTrans", "eGuess"}

\* C17: a failure of an AI backend request during a turn never terminates
\* the process.
C17_BackendFailureRecoverable ==
    ~(cpc = "fatal" /\ mainGroupErr \in BackendErrors)

\* C18: a request that was answered not-found has had no other effect: its
\* connection was never upgraded, no AI session was opened for it, no relay
\* loop was started, nothing was read, sent or written, and the handler
\* does nothing more; answering it leaves the process and every other
\* game as they were.
C18_UnsupportedLangOnlyNotFound ==
    /\ [](\A g \in Games : hpc[g] = "notfound" =>
             /\ conn[g] = "none" /\ session[g] = "none" /\ sessionJudge[g] = "none"
             /\ gpc[g] = "none" /\ jpc[g] = "none"
             /\ recvd[g] = <<>> /\ sentG[g] = <<>> /\ sentJ[g] = <<>>
             /\ inflight[g] = [guesser |-> 0, judge |-> 0]
             /\ gRecv[g] = <<>> /\ jRecv[g] = <<>>
             /\ clientOut[g] = <<>> /\ judgeLog[g] = <<>>)
    /\ [][\A g \in Games :
            /\ hpc[g] = "notfound" => hpc'[g] = "notfound"
            /\ (hpc[g] # "notfound" /\ hpc'[g] = "notfound") =>
                  /\ hpc[g] = "idle"
                  /\ \A h \in Games \ {g} : hpc'[h] = hpc[h]
                  /\ UNCHANGED <<fatal, gpc, jpc, conn, session, sessionJudge,
                                 recvd, sentG, sentJ, inflight, gRecv, jRecv,
                                 clientOut, judgeLog>>]_vars

\* a request was answered not-found
C18_Witness == hpc["g1"] = "notfound"

\* C19: the step in which a receive from the guesser session fails ends the
\* guesser relay loop and changes nothing else: the handler, the judge
\* loop, both sessions and the client connection stay as they are; and
\* with the guesser loop ended that way the fan-out loop still has both
\* sessions and the connection open, can still read the next client frame
\* and can still send a frame it has read to the guesser and to the judge.
C19_ReceiveFailureEndsRelayOnly ==
    /\ [][\A g \in Games :
            (gpc[g] # "recvFailed" /\ gpc'[g] = "recvFailed") =>
                /\ \A h \in Games \ {g} : gpc'[h] = gpc[h]
                /\ UNCHANGED <<fatal, hpc, jpc, conn, session, sessionJudge>>]_vars
    /\ [](\A g \in Games :
            (gpc[g] = "recvFailed" /\ hpc[g] \in FanOutLoop /\ procAlive) =>
                /\ conn[g] = "open"
                /\ session[g] = "open"
                /\ sessionJudge[g] = "open"
                /\ (hpc[g] = "read" /\ FramesRead < budget.frames) =>
                      ENABLED (\E m \in RawMessages : ReadMessageOk(g, m))
                /\ hpc[g] = "sendGuesser" => ENABLED SendGuesserCall(g)
                /\ hpc[g] = "sendJudge" => ENABLED SendJudgeCall(g))

\* the guesser relay loop has ended on a failed receive and the second
\* frame of the client is on its way to the judge session
C19_Witness ==
    /\ gpc["g1"] = "recvFailed"
    /\ hpc["g1"] = "sendingJudge"
    /\ Len(sentG["g1"]) = 2
    /\ Len(sentJ["g1"]) = 2

\* C20: whatever the outcome of sending a frame to the guesser session, the
\* handler goes on to send that frame to the judge session, so that back
\* at the read both sessions have been sent the same frames; the step in
\* which a send to either session fails leaves the handler in the fan-out
\* loop, closes nothing, ends no loop and the process, and writes nothing
\* to the client.
C20_FanOutFireAndForget ==
    /\ [][\A g \in Games :
            /\ (hpc[g] = "sendingGuesser" /\ hpc'[g] # "sendingGuesser") =>
                  hpc'[g] = "sendJudge"
            /\ sendFailed'[g] \ sendFailed[g] # {} =>
                  /\ hpc'[g] \in FanOutLoop
                  /\ UNCHANGED <<fatal, gpc, jpc, conn, session, sessionJudge,
                                 clientOut>>]_vars
    /\ [](\A g \in Games :
            /\ (hpc[g] = "sendJudge" /\ procAlive) => ENABLED SendJudgeCall(g)
            /\ hpc[g] = "read" => sentJ[g] = sentG[g])

\* the send of the first frame to the guesser session failed, and the frame
\* is being sent to the judge session
C20_Witness ==
    /\ sendFailed["g1"] = {"guesser"}
    /\ hpc["g1"] = "sendingJudge"
    /\ Len(sentG["g1"]) = 1
    /\ Len(sentJ["g1"]) = 1

\* C21: whenever saidForbidden has returned an error, it has returned
\* lost = false with empty fragment and matched word; a structured answer
\* that does not parse makes it return the wrapped parse error, which
\* nothing else does, and no confirmation check is issued for it.
C21_ErrorReturnsNoVerdict ==
    /\ (sfRet.returned /\ sfRet.err # "nil") =>
          /\ ~sfRet.lost
          /\ sfRet.said = <<>>
          /\ sfRet.matched = <<>>
          /\ ~lost /\ forbiddenSaid = <<>> /\ forbiddenMatched = <<>>
    /\ sfAnswer = "unparsable" =>
          /\ sfRet.returned /\ sfRet.err = "eParse" /\ ~sfRet.afterChecks
          /\ sr = "idle" /\ tr = "idle"
          /\ srAnswer = "none" /\ trAnswer = "none"
    /\ (sfRet.returned /\ sfRet.err = "eParse") => sfAnswer = "unparsable"
    /\ sfAnswer = "err" => sfRet.returned /\ sfRet.err = "eJudge"

\* the judgment said lost, the translation check confirmed it, and the
\* same-root check failed: saidForbidden returned that error and no verdict
C21_Witness ==
    /\ sfRet.returned
    /\ sfRet.err = "eRoot"
    /\ sfResult.lost
    /\ trAnswer = "Yes"

\* C22: the two tasks of a join group write disjoint variables: while a
\* task has assigned err and has yet to return it, no step of the other
\* task of its group changes err; for the two confirmation tasks of
\* saidForbidden, and for the judge task and the guesser task of a turn.
C22_NoSharedWrites ==
    [][/\ (sr = "ret" /\ tr' # tr) => sfErr' = sfErr
       /\ (tr = "ret" /\ sr' # sr) => sfErr' = sfErr
       /\ (jt = "ret" /\ gt' # gt) => mainErr' = mainErr
       /\ (gt = "ret" /\ jt' # jt) => mainErr' = mainErr]_vars

====
